---------------------------- MODULE Spec2Model ----------------------------
(***************************************************************************)
(* A model of the two programs of the repository:                          *)
(*   src/runner.py  - the recursive-descent parser that also evaluates     *)
(*   src/parser.py  - the recursive-descent recogniser (syntax only)       *)
(* Both pull their tokens from a plex scanner built from the same lexicon. *)
(*                                                                         *)
(* The input file is a string; a character is a string of length 1.  A     *)
(* grammar procedure is an operator from the parser object (a record) to   *)
(* the parser object after the call, with the raised exception, if any, in *)
(* its field exc.  One action is one step of the top level: the creation   *)
(* of the scanner, one statement of stmt_list, the end of stmt_list, and   *)
(* the handlers of the module's try statement.                             *)
(***************************************************************************)
EXTENDS Integers, Sequences, FiniteSets, TLC

VARIABLES
    input,      \* the text of the file handed to parse
    status,     \* where the run is: see Statuses
    la,         \* self.la: the kind of the lookahead token
    val,        \* self.val: the text of the lookahead token
    pos,        \* the scanner's cursor: index of the next unread character
    list,       \* self.list: the variables and their values
    out,        \* the lines written to standard output
    perr,       \* the message of the exception raised, "" when none
    reads,      \* history: the calls of scanner.read so far
    undef       \* history: the identifiers evaluated while not in self.list

vars == <<input, status, la, val, pos, list, out, perr, reads, undef>>

-----------------------------------------------------------------------------
(* Bounds of the model.                                                    *)

\* longest input made of arbitrary words
MaxWords == 3
\* most operators in a literal-only print statement
MaxOps == 3
\* most statements in a program of simple statements
MaxStmts == 2
\* most pieces glued without white space into one input
MaxPieces == 3

-----------------------------------------------------------------------------
(* Characters and the patterns of create_scanner.                          *)

decimalDigit == {"0", "1", "2", "3", "4", "5", "6", "7", "8", "9"}
binaryDigit == {"0", "1"}
letter ==
    {"a", "b", "c", "d", "e", "f", "g", "h", "i", "j", "k", "l", "m",
     "n", "o", "p", "q", "r", "s", "t", "u", "v", "w", "x", "y", "z",
     "A", "B", "C", "D", "E", "F", "G", "H", "I", "J", "K", "L", "M",
     "N", "O", "P", "Q", "R", "S", "T", "U", "V", "W", "X", "Y", "Z"}
space == {" ", "\n", "\t"}

\* the character of s at index i (1-based), "" past the end
CharAt(s, i) == IF i >= 1 /\ i <= Len(s) THEN SubSeq(s, i, i) ELSE ""

\* plex.Str(w): the length matched at i, 0 when w is not there
StrMatch(w, s, i) ==
    IF i + Len(w) - 1 <= Len(s) /\ SubSeq(s, i, i + Len(w) - 1) = w
    THEN Len(w) ELSE 0

\* plex.Rep(cls): the length of the longest run of characters of cls at i
RECURSIVE RepMatch(_, _, _)
RepMatch(cls, s, i) ==
    IF CharAt(s, i) \in cls THEN 1 + RepMatch(cls, s, i + 1) ELSE 0

\* plex.Any(' \n\t')
spaceMatch(s, i) == IF CharAt(s, i) \in space THEN 1 ELSE 0

\* plex.Rep1(binaryDigit)
binaryNumber(s, i) == RepMatch(binaryDigit, s, i)

\* letter + plex.Rep(letter|decimalDigit)
name(s, i) ==
    IF CharAt(s, i) \in letter
    THEN 1 + RepMatch(letter \cup decimalDigit, s, i + 1) ELSE 0

\* the lexicon with the identifier rule moved to the top
lexicon_name_first ==
    << [pattern |-> "name",         action |-> "ID"],
       [pattern |-> "space",        action |-> "IGNORE"],
       [pattern |-> "leftPar",      action |-> "TEXT"],
       [pattern |-> "rightPar",     action |-> "TEXT"],
       [pattern |-> "equals",       action |-> "TEXT"],
       [pattern |-> "printKeyword", action |-> "TEXT"],
       [pattern |-> "binaryNumber", action |-> "BINARY_NUM"],
       [pattern |-> "andOperator",  action |-> "TEXT"],
       [pattern |-> "orOperator",   action |-> "TEXT"],
       [pattern |-> "xorOperator",  action |-> "TEXT"] >>

\* the lexicon, in the order of the source: pattern and action
lexicon ==
    << [pattern |-> "space",        action |-> "IGNORE"],
       [pattern |-> "leftPar",      action |-> "TEXT"],
       [pattern |-> "rightPar",     action |-> "TEXT"],
       [pattern |-> "equals",       action |-> "TEXT"],
       [pattern |-> "printKeyword", action |-> "TEXT"],
       [pattern |-> "binaryNumber", action |-> "BINARY_NUM"],
       [pattern |-> "andOperator",  action |-> "TEXT"],
       [pattern |-> "orOperator",   action |-> "TEXT"],
       [pattern |-> "xorOperator",  action |-> "TEXT"],
       [pattern |-> "name",         action |-> "ID"] >>

\* the length pattern pat matches at i of s (0: no match)
PatternMatch(pat, s, i) ==
    CASE pat = "space"        -> spaceMatch(s, i)
      [] pat = "leftPar"      -> StrMatch("(", s, i)
      [] pat = "rightPar"     -> StrMatch(")", s, i)
      [] pat = "equals"       -> StrMatch("=", s, i)
      [] pat = "printKeyword" -> StrMatch("print", s, i)
      [] pat = "binaryNumber" -> binaryNumber(s, i)
      [] pat = "andOperator"  -> StrMatch("and", s, i)
      [] pat = "orOperator"   -> StrMatch("or", s, i)
      [] pat = "xorOperator"  -> StrMatch("xor", s, i)
      [] pat = "name"         -> name(s, i)

\* the value of Python's None: as a token kind (end of input) and as a value
None == "None"
NoneValue == -1

\* the value of e handed to the rest of the computation F
Let(e, F(_)) == F(e)

\* the length each pattern of the lexicon matches at i of s
MatchLengths(s, i) ==
    [k \in DOMAIN lexicon |-> PatternMatch(lexicon[k].pattern, s, i)]

\* the longest of the lengths
Longest(len) ==
    CHOOSE n \in {len[k] : k \in DOMAIN len} : \A k \in DOMAIN len : len[k] <= n

\* the first entry of the lexicon that matches the length best
FirstOf(len, best) ==
    CHOOSE j \in DOMAIN len :
        len[j] = best /\ \A h \in DOMAIN len : len[h] = best => j <= h

\* plex's Scanner.read: the longest match wins, and among the patterns
\* matching that length the first of the lexicon; an IGNORE match is skipped
\* and scanning goes on; (None, '') at the end of the file; no match raises
\* UnrecognizedInput, a PlexError.
RECURSIVE read(_, _)
read(s, i) ==
    IF i > Len(s)
    THEN [tok |-> None, text |-> "", at |-> i, next |-> i, exc |-> "none"]
    ELSE Let(MatchLengths(s, i), LAMBDA len :
         Let(Longest(len), LAMBDA best :
         IF best = 0
         THEN [tok |-> None, text |-> "", at |-> i, next |-> i,
               exc |-> "PlexError"]
         ELSE Let(lexicon[FirstOf(len, best)].action, LAMBDA action :
              IF action = "IGNORE"
              THEN read(s, i + best)
              ELSE [tok  |-> IF action = "TEXT"
                             THEN SubSeq(s, i, i + best - 1) ELSE action,
                    text |-> SubSeq(s, i, i + best - 1),
                    at |-> i, next |-> i + best, exc |-> "none"])))

-----------------------------------------------------------------------------
(* Python's int(text, 2), '{:b}'.format(n) and the operators &, |, ^.      *)

\* int(self.val, 2): the value of a string of binary digits
RECURSIVE int2(_)
int2(text) ==
    IF Len(text) = 0 THEN 0
    ELSE 2 * int2(SubSeq(text, 1, Len(text) - 1))
         + (IF SubSeq(text, Len(text), Len(text)) = "1" THEN 1 ELSE 0)

\* '{:b}'.format(n) for an integer n >= 0
RECURSIVE format_b(_)
format_b(n) ==
    IF n < 2 THEN (IF n = 1 THEN "1" ELSE "0")
    ELSE format_b(n \div 2) \o (IF n % 2 = 1 THEN "1" ELSE "0")

\* atom1 & atom2
RECURSIVE BitAnd(_, _)
BitAnd(a, b) ==
    IF a = 0 \/ b = 0 THEN 0
    ELSE (IF a % 2 = 1 /\ b % 2 = 1 THEN 1 ELSE 0)
         + 2 * BitAnd(a \div 2, b \div 2)

\* factor1 | factor2
RECURSIVE BitOr(_, _)
BitOr(a, b) ==
    IF a = 0 THEN b ELSE IF b = 0 THEN a
    ELSE (IF a % 2 = 1 \/ b % 2 = 1 THEN 1 ELSE 0)
         + 2 * BitOr(a \div 2, b \div 2)

\* term1 | term2 written for term1 ^ term2
BitXor_as_or(a, b) == BitOr(a, b)

\* term1 ^ term2
RECURSIVE BitXor(_, _)
BitXor(a, b) ==
    IF a = 0 THEN b ELSE IF b = 0 THEN a
    ELSE (IF a % 2 # b % 2 THEN 1 ELSE 0)
         + 2 * BitXor(a \div 2, b \div 2)

-----------------------------------------------------------------------------
(* src/runner.py: the parser object and its methods.                       *)
(* A parser object p is a record of la, val, pos, list, out and the two    *)
(* histories, with exc the exception being raised ("none" when none) and   *)
(* msg its message.  A method returns [p, v]: the parser object after the  *)
(* call and the value returned (NoneValue when the method returns none).   *)

\* self.list = {}
EmptyList == [k \in {} |-> NoneValue]

\* self.list[varname] = expression
Store(l, varname, v) ==
    [k \in DOMAIN l \cup {varname} |-> IF k = varname THEN v ELSE l[k]]

\* return v
Return(p, v) == [p |-> p, v |-> v]

\* raise exc(msg)
Raise(p, exc, msg) == Return([p EXCEPT !.exc = exc, !.msg = msg], NoneValue)

\* a call that returned r, followed by the rest F of the caller's body: an
\* exception raised by the call leaves the caller at once
Call(r, F(_)) == IF r.p.exc # "none" THEN r ELSE F(r)

\* the token is stored and the cursor of the scanner stays where it was
Fetched_in_place(p, r) ==
    IF r.exc # "none"
    THEN Raise([p EXCEPT !.reads = Append(@, [r EXCEPT !.next = p.pos])],
               r.exc, "")
    ELSE Return([p EXCEPT !.la = r.tok, !.val = r.text,
                          !.reads = Append(@, r)], NoneValue)

\* the parser object after scanner.read returned r: next_token's result is
\* stored into self.la, self.val by its two callers
Fetched(p, r) ==
    IF r.exc # "none"
    THEN Raise([p EXCEPT !.reads = Append(@, [r EXCEPT !.next = p.pos])],
               r.exc, "")
    ELSE Return([p EXCEPT !.la = r.tok, !.val = r.text, !.pos = r.next,
                          !.reads = Append(@, r)], NoneValue)

next_token(p) == Fetched(p, read(input, p.pos))

match(p, token) ==
    IF p.la = token
    THEN next_token(p)
    ELSE Raise(p, "ParseError", "found " \o p.la \o " instead of " \o token)

\* history: varname is evaluated; it is recorded when self.list lacks it
Evaluated(p, varname) ==
    IF varname \in DOMAIN p.list THEN p
    ELSE [p EXCEPT !.undef = @ \cup {varname}]

RECURSIVE expr(_), expr_while(_, _), term(_), term_while(_, _)
RECURSIVE factor(_), factor_while(_, _), atom(_)

atom(p) ==
    IF p.la = "("
    THEN Call(match(p, "("), LAMBDA m :
         Call(expr(m.p), LAMBDA expression :
         \* expression is not returned: the call yields None
         Call(match(expression.p, ")"), LAMBDA n :
         Return(n.p, NoneValue))))
    ELSE IF p.la = "ID"
    THEN \* varname is not looked up: the call yields None
         Call(match(Evaluated(p, p.val), "ID"), LAMBDA m :
         Return(m.p, NoneValue))
    ELSE IF p.la = "BINARY_NUM"
    THEN Let(int2(p.val), LAMBDA intBinNum :
         Call(match(p, "BINARY_NUM"), LAMBDA m :
         Return(m.p, intBinNum)))
    ELSE Raise(p, "ParseError", "in atom: (, id or binary number expected")

\* while self.la == 'and': ... atom1 = atom1&atom2
factor_while(p, atom1) ==
    IF p.la = "and"
    THEN Call(match(p, "and"), LAMBDA m :
         Call(factor(m.p), LAMBDA atom2 :
         IF atom1 = NoneValue \/ atom2.v = NoneValue
         THEN Raise(atom2.p, "TypeError", "unsupported operand type(s) for &")
         ELSE factor_while(atom2.p, BitAnd(atom1, atom2.v))))
    ELSE Return(p, atom1)

factor(p) ==
    IF p.la \in {"(", "ID", "BINARY_NUM"}
    THEN Call(atom(p), LAMBDA a :
         Call(factor_while(a.p, a.v), LAMBDA atom1 :
         IF atom1.p.la \in {")", "or", "xor", "ID", "print", None}
         THEN atom1
         ELSE Raise(atom1.p, "ParseError",
                    "in factor: AND operator expected")))
    ELSE Raise(p, "ParseError", "in factor: (, id or binary number expected")

\* while self.la == 'or': ... factor1 = factor1|factor2
term_while(p, factor1) ==
    IF p.la = "or"
    THEN Call(match(p, "or"), LAMBDA m :
         Call(factor(m.p), LAMBDA factor2 :
         IF factor1 = NoneValue \/ factor2.v = NoneValue
         THEN Raise(factor2.p, "TypeError",
                    "unsupported operand type(s) for |")
         ELSE term_while(factor2.p, BitOr(factor1, factor2.v))))
    ELSE Return(p, factor1)

term(p) ==
    IF p.la \in {"(", "ID", "BINARY_NUM"}
    THEN Call(factor(p), LAMBDA f :
         Call(term_while(f.p, f.v), LAMBDA factor1 :
         IF factor1.p.la \in {")", "xor", "ID", "print", None}
         THEN factor1
         ELSE Raise(factor1.p, "ParseError",
                    "in term: OR operator expected")))
    ELSE Raise(p, "ParseError", "in term: (, id or binary number expected")

\* while self.la == 'xor': ... term1 = term1^term2
expr_while(p, term1) ==
    IF p.la = "xor"
    THEN Call(match(p, "xor"), LAMBDA m :
         Call(term(m.p), LAMBDA term2 :
         IF term1 = NoneValue \/ term2.v = NoneValue
         THEN Raise(term2.p, "TypeError", "unsupported operand type(s) for ^")
         ELSE expr_while(term2.p, BitXor(term1, term2.v))))
    ELSE Return(p, term1)

expr(p) ==
    IF p.la \in {"(", "ID", "BINARY_NUM"}
    THEN Call(term(p), LAMBDA t :
         Call(expr_while(t.p, t.v), LAMBDA term1 :
         IF term1.p.la \in {")", "ID", "print", None}
         THEN term1
         ELSE Raise(term1.p, "ParseError",
                    "in expr: XOR operator expected")))
    ELSE Raise(p, "ParseError", "in expr: (, id or binary number expected")

\* print('{:b}'.format(expression))
print_b(p, expression) ==
    IF expression = NoneValue
    THEN Raise(p, "TypeError",
               "unsupported format string passed to NoneType.__format__")
    ELSE Return([p EXCEPT !.out = Append(@, format_b(expression))], NoneValue)

\* the variable is entered into self.list before its expression is evaluated
stmt_binds_first(p) ==
    IF p.la = "ID"
    THEN Let(p.val, LAMBDA varname :
         Call(match([p EXCEPT !.list = Store(@, varname, NoneValue)], "ID"),
              LAMBDA m1 :
         Call(match(m1.p, "="), LAMBDA m2 :
         Call(expr(m2.p), LAMBDA expression :
         Return([expression.p EXCEPT
                    !.list = Store(@, varname, expression.v)], NoneValue)))))
    ELSE IF p.la = "print"
    THEN Call(match(p, "print"), LAMBDA m :
         Call(expr(m.p), LAMBDA expression :
         print_b(expression.p, expression.v)))
    ELSE Raise(p, "ParseError", "in stmt: id or print expected")

stmt(p) ==
    IF p.la = "ID"
    THEN Let(p.val, LAMBDA varname :
         Call(match(p, "ID"), LAMBDA m1 :
         Call(match(m1.p, "="), LAMBDA m2 :
         Call(expr(m2.p), LAMBDA expression :
         Return([expression.p EXCEPT
                    !.list = Store(@, varname, expression.v)], NoneValue)))))
    ELSE IF p.la = "print"
    THEN Call(match(p, "print"), LAMBDA m :
         Call(expr(m.p), LAMBDA expression :
         print_b(expression.p, expression.v)))
    ELSE Raise(p, "ParseError", "in stmt: id or print expected")

-----------------------------------------------------------------------------
(* The input files of the model: four families of texts.                   *)

\* every sequence over S of length at most n
SeqsUpTo(S, n) == UNION {[1..k -> S] : k \in 0..n}

\* the words of ws with one space between them
RECURSIVE JoinWords(_)
JoinWords(ws) ==
    IF Len(ws) = 0 THEN ""
    ELSE IF Len(ws) = 1 THEN ws[1]
    ELSE ws[1] \o " " \o JoinWords(Tail(ws))

\* the pieces of ps with nothing between them
RECURSIVE Glue(_)
Glue(ps) == IF Len(ps) = 0 THEN "" ELSE ps[1] \o Glue(Tail(ps))

Words == {"print", "x", "=", "(", ")", "and", "or", "xor", "0", "1", "@"}
Operators == {"and", "or", "xor"}
Literals == {"0", "1", "010"}
Identifiers == {"x", "y"}
Pieces == {"print", "and", "or", "xor", "x", "er", "1", "9", " ", "\n", "="}

\* any words, separated by spaces
WordInputs == {JoinWords(ws) : ws \in SeqsUpTo(Words, MaxWords)}

\* literal (operator literal)^k, as a sequence of words
RECURSIVE LiteralExprs(_)
LiteralExprs(k) ==
    IF k = 0 THEN {<<l>> : l \in Literals}
    ELSE {e \o <<o, l>> : e \in LiteralExprs(k - 1),
                          o \in Operators, l \in Literals}

\* print E, and print ( E ), for a literal expression E
PrintInputs ==
    UNION {{JoinWords(<<"print">> \o e) : e \in LiteralExprs(k)}
           : k \in 0..MaxOps}
    \cup UNION {{JoinWords(<<"print", "(">> \o e \o <<")">>)
                 : e \in LiteralExprs(k)} : k \in 0..1}

\* programs of simple statements: id = atom and print atom
SimpleStmts ==
    {<<i, "=", a>> : i \in Identifiers, a \in Literals \cup Identifiers}
    \cup {<<"print", a>> : a \in Literals \cup Identifiers}

RECURSIVE Flatten(_)
Flatten(ss) == IF Len(ss) = 0 THEN <<>> ELSE ss[1] \o Flatten(Tail(ss))

StmtInputs ==
    {JoinWords(Flatten(ss)) : ss \in SeqsUpTo(SimpleStmts, MaxStmts)}

\* print ( a o1 b ) o2 c and every prefix of it: the input that ends early
ParenInputs ==
    {JoinWords(SubSeq(<<"print", "(", a, o1, b, ")", o2, c>>, 1, n)) :
        a \in {"1", "x"}, b \in {"0", "1"}, c \in {"0", "1"},
        o1 \in Operators, o2 \in Operators, n \in 0..8}

\* pieces glued together: words that begin or end with a reserved word
PieceInputs == {Glue(ps) : ps \in SeqsUpTo(Pieces, MaxPieces)}

Inputs == WordInputs \cup PrintInputs \cup StmtInputs \cup ParenInputs
          \cup PieceInputs

-----------------------------------------------------------------------------
(* src/runner.py: the run, from the module's top level.                    *)

Statuses == {"start", "stmt_list", "PlexError", "ParseError", "TypeError",
             "ok", "reported", "crashed"}

\* the parser object in the current state
Self ==
    [la |-> la, val |-> val, pos |-> pos, list |-> list, out |-> out,
     reads |-> reads, undef |-> undef, exc |-> "none", msg |-> ""]

\* the state after a method returned r
Becomes(r, next) ==
    /\ la' = r.p.la
    /\ val' = r.p.val
    /\ pos' = r.p.pos
    /\ list' = r.p.list
    /\ out' = r.p.out
    /\ reads' = r.p.reads
    /\ undef' = r.p.undef
    /\ perr' = r.p.msg
    /\ status' = IF r.p.exc = "none" THEN next ELSE r.p.exc
    /\ UNCHANGED input

Init ==
    /\ input \in Inputs
    /\ status = "start"
    /\ la = None
    /\ val = ""
    /\ pos = 1
    /\ list = EmptyList
    /\ out = <<>>
    /\ perr = ""
    /\ reads = <<>>
    /\ undef = {}

\* self.list = {} and the initial lookahead
create_scanner(p) == next_token([p EXCEPT !.list = EmptyList])

\* parser.parse(fp) up to the call of stmt_list
Parse ==
    /\ status = "start"
    /\ Becomes(create_scanner(Self), "stmt_list")

\* stmt_list, first branch: one statement, then stmt_list again
StmtListStmt ==
    /\ status = "stmt_list"
    /\ la \in {"ID", "print"}
    /\ Becomes(stmt(Self), "stmt_list")

\* stmt_list, second branch: the end of the input; parse returns
StmtListReturn ==
    /\ status = "stmt_list"
    /\ la = None
    /\ status' = "ok"
    /\ UNCHANGED <<input, la, val, pos, list, out, perr, reads, undef>>

\* stmt_list, last branch
StmtListRaise ==
    /\ status = "stmt_list"
    /\ la \notin {"ID", "print", None}
    /\ Becomes(Raise(Self, "ParseError", "stmt_list: id or print expected"),
               "stmt_list")

\* except plex.errors.PlexError
ExceptPlexError ==
    /\ status = "PlexError"
    /\ out' = Append(out, "Scanner Error")
    /\ status' = "reported"
    /\ UNCHANGED <<input, la, val, pos, list, perr, reads, undef>>

\* except ParseError as perr
ExceptParseError ==
    /\ status = "ParseError"
    /\ out' = Append(out, "Parser Error: " \o perr)
    /\ status' = "reported"
    /\ UNCHANGED <<input, la, val, pos, list, perr, reads, undef>>

\* any other exception leaves the try statement: the interpreter prints a
\* traceback on standard error and the process ends
Uncaught ==
    /\ status = "TypeError"
    /\ status' = "crashed"
    /\ UNCHANGED <<input, la, val, pos, list, out, perr, reads, undef>>

Next ==
    \/ Parse
    \/ StmtListStmt
    \/ StmtListReturn
    \/ StmtListRaise
    \/ ExceptPlexError
    \/ ExceptParseError
    \/ Uncaught

Spec == Init /\ [][Next]_vars

\* the run is over
Halted == status \in {"ok", "reported", "crashed"}

-----------------------------------------------------------------------------
(* src/parser.py: the recogniser.  Its create_scanner, next_token, match,  *)
(* stmt_list and top level are those of runner.py, without self.list; its  *)
(* grammar procedures return nothing.                                      *)

RECURSIVE term_tail(_), factor_tail(_), atom_tail(_)
RECURSIVE parser_term(_), parser_factor(_), parser_atom(_), parser_expr(_)

parser_atom(p) ==
    IF p.la = "("
    THEN Call(match(p, "("), LAMBDA m :
         Call(parser_expr(m.p), LAMBDA e :
         match(e.p, ")")))
    ELSE IF p.la = "ID"
    THEN match(p, "ID")
    ELSE IF p.la = "BINARY_NUM"
    THEN match(p, "BINARY_NUM")
    ELSE Raise(p, "ParseError", "in atom: (, id or binary number expected")

atom_tail(p) ==
    IF p.la = "and"
    THEN Call(match(p, "and"), LAMBDA m :
         Call(parser_atom(m.p), LAMBDA a :
         atom_tail(a.p)))
    ELSE IF p.la \in {")", "or", "xor", "ID", "print", None}
    THEN Return(p, NoneValue)
    ELSE Raise(p, "ParseError",
               "in atom_tail: and, ), or, xor, id or print expected")

parser_factor(p) ==
    IF p.la \in {"(", "ID", "BINARY_NUM"}
    THEN Call(parser_atom(p), LAMBDA a : atom_tail(a.p))
    ELSE Raise(p, "ParseError", "in factor: (, id or binary number expected")

factor_tail(p) ==
    IF p.la = "or"
    THEN Call(match(p, "or"), LAMBDA m :
         Call(parser_factor(m.p), LAMBDA f :
         factor_tail(f.p)))
    ELSE IF p.la \in {")", "xor", "ID", "print", None}
    THEN Return(p, NoneValue)
    ELSE Raise(p, "ParseError",
               "in factor_tail: or, rPar, xor, id or print expected")

parser_term(p) ==
    IF p.la \in {"(", "ID", "BINARY_NUM"}
    THEN Call(parser_factor(p), LAMBDA f : factor_tail(f.p))
    ELSE Raise(p, "ParseError", "in term: (, id or binary number expected")

\* defined by the source and called by nothing: expr only names it
term_tail(p) ==
    IF p.la = "xor"
    THEN Call(match(p, "xor"), LAMBDA m :
         Call(parser_term(m.p), LAMBDA t :
         term_tail(t.p)))
    ELSE IF p.la \in {")", "ID", "print", None}
    THEN Return(p, NoneValue)
    ELSE Raise(p, "ParseError",
               "in term_tail: xor, rpar, id or print expected")

\* self.term() and then the expression statement self.term_tail, which
\* evaluates the bound method and does not call it
parser_expr(p) ==
    IF p.la \in {"(", "ID", "BINARY_NUM"}
    THEN Call(parser_term(p), LAMBDA t : Return(t.p, NoneValue))
    ELSE Raise(p, "ParseError", "in expr: (, id or binary number expected")

parser_stmt(p) ==
    IF p.la = "ID"
    THEN Call(match(p, "ID"), LAMBDA m1 :
         Call(match(m1.p, "="), LAMBDA m2 :
         parser_expr(m2.p)))
    ELSE IF p.la = "print"
    THEN Call(match(p, "print"), LAMBDA m : parser_expr(m.p))
    ELSE Raise(p, "ParseError", "in stmt: id or print expected")

\* parser.py's create_scanner: the initial lookahead
parser_create_scanner(p) == next_token(p)

\* parser.parse(fp) up to the call of stmt_list
ParserParse ==
    /\ status = "start"
    /\ Becomes(parser_create_scanner(Self), "stmt_list")

\* stmt_list, first branch
ParserStmtListStmt ==
    /\ status = "stmt_list"
    /\ la \in {"ID", "print"}
    /\ Becomes(parser_stmt(Self), "stmt_list")

ParserNext ==
    \/ ParserParse
    \/ ParserStmtListStmt
    \/ StmtListReturn
    \/ StmtListRaise
    \/ ExceptPlexError
    \/ ExceptParseError

ParserSpec == Init /\ [][ParserNext]_vars

-----------------------------------------------------------------------------
(* The language as the specification states it, for the formulas below:    *)
(* words, literals, and the value of a literal-only expression, computed   *)
(* bit by bit and by splitting at the operators, lowest precedence first.  *)

\* the words of s: its maximal runs of characters that are not white space
RECURSIVE WordsFrom(_, _, _)
WordsFrom(s, i, cur) ==
    IF i > Len(s) THEN (IF cur = "" THEN <<>> ELSE <<cur>>)
    ELSE IF CharAt(s, i) \in space
    THEN (IF cur = "" THEN <<>> ELSE <<cur>>) \o WordsFrom(s, i + 1, "")
    ELSE WordsFrom(s, i + 1, cur \o CharAt(s, i))

WordsOf(s) == WordsFrom(s, 1, "")

ReservedWords == {"print", "and", "or", "xor"}

AllIn(w, cls) == \A i \in 1..Len(w) : CharAt(w, i) \in cls

IsLiteral(w) == Len(w) >= 1 /\ AllIn(w, {"0", "1"})

IsIdentifier(w) ==
    /\ Len(w) >= 1
    /\ CharAt(w, 1) \in letter
    /\ AllIn(w, letter \cup decimalDigit)
    /\ w \notin ReservedWords

\* literal (operator literal)*
IsLiteralExpr(ws) ==
    /\ Len(ws) % 2 = 1
    /\ \A i \in 1..Len(ws) :
          IF i % 2 = 1 THEN IsLiteral(ws[i])
          ELSE ws[i] \in {"and", "or", "xor"}

RECURSIVE Pow2(_)
Pow2(n) == IF n = 0 THEN 1 ELSE 2 * Pow2(n - 1)

\* the base-2 value of a literal, from its most significant digit
RECURSIVE BinValue(_)
BinValue(w) ==
    IF Len(w) = 0 THEN 0
    ELSE (IF CharAt(w, 1) = "1" THEN Pow2(Len(w) - 1) ELSE 0)
         + BinValue(SubSeq(w, 2, Len(w)))

\* w without its leading zeros, and at least one digit
RECURSIVE Strip(_)
Strip(w) ==
    IF Len(w) > 1 /\ CharAt(w, 1) = "0" THEN Strip(SubSeq(w, 2, Len(w)))
    ELSE w

\* t is the minimal binary digit string of n
IsMinimalBinary(t, n) ==
    /\ IsLiteral(t)
    /\ BinValue(t) = n
    /\ Len(t) = 1 \/ CharAt(t, 1) = "1"

Bit(n, i) == (n \div Pow2(i)) % 2

\* the result bit of operator o on the bits x and y
BitOf(o, x, y) ==
    CASE o = "and" -> IF x = 1 /\ y = 1 THEN 1 ELSE 0
      [] o = "or"  -> IF x = 1 \/ y = 1 THEN 1 ELSE 0
      [] o = "xor" -> IF x # y THEN 1 ELSE 0

\* a o b on the bits 0..w-1
RECURSIVE Bitwise(_, _, _, _)
Bitwise(o, a, b, w) ==
    IF w = 0 THEN 0
    ELSE Bitwise(o, a, b, w - 1)
         + Pow2(w - 1) * BitOf(o, Bit(a, w - 1), Bit(b, w - 1))

\* ws cut at every word sep
RECURSIVE SplitOn(_, _)
SplitOn(ws, sep) ==
    IF \A i \in 1..Len(ws) : ws[i] # sep THEN <<ws>>
    ELSE LET i == CHOOSE k \in 1..Len(ws) :
                     ws[k] = sep /\ \A j \in 1..(k - 1) : ws[j] # sep
         IN  <<SubSeq(ws, 1, i - 1)>> \o SplitOn(SubSeq(ws, i + 1, Len(ws)), sep)

\* the left fold of the values vs with operator o
RECURSIVE FoldLeft(_, _, _)
FoldLeft(o, vs, w) ==
    IF Len(vs) = 1 THEN vs[1]
    ELSE Bitwise(o, FoldLeft(o, SubSeq(vs, 1, Len(vs) - 1), w), vs[Len(vs)], w)

\* the value of a literal-only expression: xor < or < and
FactorValue(ws, w) ==
    FoldLeft("and", [i \in 1..Len(SplitOn(ws, "and")) |->
                        BinValue(SplitOn(ws, "and")[i][1])], w)
TermValue(ws, w) ==
    FoldLeft("or", [i \in 1..Len(SplitOn(ws, "or")) |->
                       FactorValue(SplitOn(ws, "or")[i], w)], w)
\* the length of the longest word of ws: no value needs more bits
Width(ws) ==
    CHOOSE n \in {Len(ws[i]) : i \in 1..Len(ws)} :
        \A i \in 1..Len(ws) : Len(ws[i]) <= n

ExprValue(ws) ==
    FoldLeft("xor", [i \in 1..Len(SplitOn(ws, "xor")) |->
                        TermValue(SplitOn(ws, "xor")[i], Width(ws))],
             Width(ws))

\* the words of the input, and the words after the first
InputWords == WordsOf(input)
Rest(ws) == SubSeq(ws, 2, Len(ws))

-----------------------------------------------------------------------------
(* C1.  For every program print E, E a literal-only expression without     *)
(* parentheses, the run ends normally having written exactly one line: the *)
(* minimal binary digit string of the value of E, with xor < or < and and  *)
(* left folding; print 1 or 0 and 0 writes 1, and print s writes s without *)
(* its leading zeros.                                                      *)
C1_PrintsValue ==
    (/\ Halted
     /\ Len(InputWords) >= 2
     /\ InputWords[1] = "print"
     /\ IsLiteralExpr(Rest(InputWords)))
    => /\ status = "ok"
       /\ Len(out) = 1
       /\ IsMinimalBinary(out[1], ExprValue(Rest(InputWords)))
       /\ Len(InputWords) = 2 => out[1] = Strip(InputWords[2])
       /\ InputWords = <<"print", "1", "or", "0", "and", "0">> => out = <<"1">>

C1_Witness ==
    /\ status = "ok"
    /\ InputWords = <<"print", "010", "xor", "1", "or", "0", "and", "0">>
    /\ out = <<"11">>

-----------------------------------------------------------------------------
(* C2.  An identifier atom evaluates to the value of the latest completed  *)
(* assignment to it: x = B print x writes B without its leading zeros, and *)
(* x = B x = C print x writes C without its leading zeros.                 *)
C2_ReadsBinding ==
    /\ (/\ Halted
        /\ Len(InputWords) = 5
        /\ IsIdentifier(InputWords[1])
        /\ InputWords[2] = "="
        /\ IsLiteral(InputWords[3])
        /\ InputWords[4] = "print"
        /\ InputWords[5] = InputWords[1])
       => status = "ok" /\ out = <<Strip(InputWords[3])>>
    /\ (/\ Halted
        /\ Len(InputWords) = 8
        /\ IsIdentifier(InputWords[1])
        /\ InputWords[2] = "="
        /\ IsLiteral(InputWords[3])
        /\ InputWords[4] = InputWords[1]
        /\ InputWords[5] = "="
        /\ IsLiteral(InputWords[6])
        /\ InputWords[7] = "print"
        /\ InputWords[8] = InputWords[1])
       => status = "ok" /\ out = <<Strip(InputWords[6])>>

(* C3.  A parenthesized atom has the value of the enclosed expression:     *)
(* print ( E ) writes the line print E writes, for a literal-only E, and   *)
(* print ( 1 or 0 ) and 0 writes 0.                                        *)
C3_ParenValue ==
    /\ (/\ Halted
        /\ Len(InputWords) >= 4
        /\ InputWords[1] = "print"
        /\ InputWords[2] = "("
        /\ InputWords[Len(InputWords)] = ")"
        /\ IsLiteralExpr(SubSeq(InputWords, 3, Len(InputWords) - 1)))
       => /\ status = "ok"
          /\ Len(out) = 1
          /\ IsMinimalBinary(out[1],
                ExprValue(SubSeq(InputWords, 3, Len(InputWords) - 1)))
    /\ (Halted /\ InputWords = <<"print", "(", "1", "or", "0", ")", "and", "0">>)
       => status = "ok" /\ out = <<"0">>

(* C4.  Evaluating an identifier that has no binding raises an             *)
(* undefined-variable error naming it, and no unset value reaches the      *)
(* caller: no variable is ever bound to an unset value.                    *)
C4_UndefinedRaises ==
    /\ undef # {} => status \in {"UndefinedVariableError", "reported"}
    /\ \A k \in DOMAIN list : list[k] # NoneValue

(* C5.  A run ends normally or in one of the reportable error kinds, which *)
(* the top level catches and turns into one diagnostic; nothing else       *)
(* escapes the handlers of the top level.                                  *)
C5_OnlyReportedErrors ==
    /\ status \notin {"TypeError", "crashed"}
    /\ Halted => status \in {"ok", "reported"}

\* the number of words of ws equal to w
RECURSIVE Count(_, _)
Count(ws, w) ==
    IF Len(ws) = 0 THEN 0
    ELSE (IF ws[1] = w THEN 1 ELSE 0) + Count(SubSeq(ws, 2, Len(ws)), w)

IsToken(w) ==
    \/ w \in {"=", "(", ")"} \cup ReservedWords
    \/ IsLiteral(w)
    \/ IsIdentifier(w)

\* the input ends inside a statement: after print, after =, after a binary
\* operator, after the identifier that begins a statement, or with a
\* parenthesis still open
EndsInsideStatement(ws) ==
    /\ Len(ws) >= 1
    /\ \A i \in 1..Len(ws) : IsToken(ws[i])
    /\ \/ ws[Len(ws)] \in {"print", "=", "and", "or", "xor"}
       \/ Count(ws, "(") > Count(ws, ")")
       \/ /\ IsIdentifier(ws[Len(ws)])
          /\ Len(ws) = 1 \/ IsLiteral(ws[Len(ws) - 1])
             \/ IsIdentifier(ws[Len(ws) - 1]) \/ ws[Len(ws) - 1] = ")"

\* the lookahead became the end of the input
AtEndOfInput ==
    /\ Len(reads) >= 1
    /\ reads[Len(reads)].tok = None
    /\ reads[Len(reads)].exc = "none"

(* C6.  When the lookahead becomes the end of the input inside a statement *)
(* the run raises a syntax error and never ends normally.                  *)
C6_EndInsideStatement ==
    (AtEndOfInput /\ EndsInsideStatement(InputWords))
    => status \in {"ParseError", "reported"}

-----------------------------------------------------------------------------
\* the length of the maximal run of letters and digits of s that begins at a
AlnumRun(s, a) ==
    CHOOSE n \in 0..(Len(s) + 1 - a) :
        /\ \A i \in 0..(n - 1) : CharAt(s, a + i) \in letter \cup decimalDigit
        /\ CharAt(s, a + n) \notin letter \cup decimalDigit

\* the word a token that begins at a belongs to
RunAt(s, a) == SubSeq(s, a, a + AlnumRun(s, a) - 1)

(* C7.  A maximal run of letters and digits that starts with a letter is   *)
(* returned as print, and, or, xor exactly when the whole run is that      *)
(* word, and otherwise as one identifier holding the whole run; a reserved *)
(* word is never returned as an identifier.                                *)
C7_ReservedWordsExact ==
    \A i \in 1..Len(reads) :
        /\ (reads[i].exc = "none" /\ CharAt(input, reads[i].at) \in letter)
           => /\ reads[i].text = RunAt(input, reads[i].at)
              /\ reads[i].tok = IF RunAt(input, reads[i].at) \in ReservedWords
                                THEN RunAt(input, reads[i].at) ELSE "ID"
        /\ reads[i].tok = "ID" => reads[i].text \notin ReservedWords

C7_Witness ==
    /\ Len(reads) >= 1
    /\ reads[1].tok = "ID"
    /\ reads[1].text = "printer"

(* C8.  Effects are committed statement by statement: a statement that     *)
(* fails writes nothing and binds nothing, a print statement leaves the    *)
(* variables as they are, and the variables change only when an assignment *)
(* statement completes.                                                    *)
C8_StatementEffects ==
    [][ /\ (status = "stmt_list" /\ status' # "stmt_list")
           => (out' = out /\ list' = list)
        /\ (status = "stmt_list" /\ la = "print") => list' = list
        /\ list' # list
           => (status = "stmt_list" /\ la = "ID" /\ status' = "stmt_list")
        /\ (status = "stmt_list" /\ la = "ID") => out' = out
      ]_vars

C8_Witness ==
    /\ status \in {"PlexError", "ParseError", "TypeError"}
    /\ DOMAIN list # {}
    /\ Len(reads) >= 5

\* every read begins where the one before ended, at a later token, and no
\* read follows the one that returned the end of the input
ReadsInOrder ==
    /\ \A i \in 1..Len(reads) :
          /\ reads[i].at <= Len(input) + 1
          /\ i < Len(reads)
             => /\ reads[i].tok # None
                /\ reads[i].exc = "none"
                /\ reads[i].at < reads[i + 1].at
                /\ reads[i].next <= reads[i + 1].at
    /\ Len(reads) >= 1 => pos = reads[Len(reads)].next

\* what is left of the run: the characters not yet scanned, and the steps
\* of the top level still to take
StepsLeft ==
    CASE status = "start" -> 3
      [] status = "stmt_list" -> 2
      [] status \in {"PlexError", "ParseError", "TypeError"} -> 1
      [] OTHER -> 0

Measure == (Len(input) + 1 - pos) + StepsLeft

\* one of the actions of Next is enabled: its guard holds
CanStep ==
    \/ status = "start"
    \/ status = "stmt_list" /\ la \in {"ID", "print"}
    \/ status = "stmt_list" /\ la = None
    \/ status = "stmt_list" /\ la \notin {"ID", "print", None}
    \/ status = "PlexError"
    \/ status = "ParseError"
    \/ status = "TypeError"

(* C10.  Every run halts, normally or with an error: a run that has not    *)
(* halted can take a step, and every step makes the natural number Measure *)
(* smaller, so no run goes on for ever.  Each token is fetched at most     *)
(* once and nothing is read after the end of the input; on an input        *)
(* without statements the run halts normally with no output.               *)
C10_Halts ==
    /\ [](Halted \/ CanStep)
    /\ [](Measure >= 0)
    /\ [][Measure' < Measure]_vars
    /\ []ReadsInOrder
    /\ []((Halted /\ InputWords = <<>>) => (status = "ok" /\ out = <<>>))

C10_Witness ==
    /\ status = "ok"
    /\ Len(reads) >= 4
    /\ reads[Len(reads)].tok = None

-----------------------------------------------------------------------------
(* The grammar of the docstring of src/parser.py, as derivability of the   *)
(* tokens i .. j-1 of a sequence of token kinds.                           *)

Kind(w) == IF IsLiteral(w) THEN "BINARY_NUM"
           ELSE IF IsIdentifier(w) THEN "ID" ELSE w

Kinds(ws) == [i \in 1..Len(ws) |-> Kind(ws[i])]

RECURSIVE DerivesExpr(_, _, _), DerivesTerm(_, _, _), DerivesFactor(_, _, _)
RECURSIVE DerivesAtom(_, _, _), DerivesStmtList(_, _, _)

\* Atom -> lPar Expr rPar | id | number
DerivesAtom(ks, i, j) ==
    \/ j = i + 1 /\ ks[i] \in {"ID", "BINARY_NUM"}
    \/ j >= i + 3 /\ ks[i] = "(" /\ ks[j - 1] = ")"
       /\ DerivesExpr(ks, i + 1, j - 1)

\* Factor -> Atom Atom_tail, Atom_tail -> and Atom Atom_tail | empty
DerivesFactor(ks, i, j) ==
    \/ DerivesAtom(ks, i, j)
    \/ \E k \in (i + 1)..(j - 2) :
          ks[k] = "and" /\ DerivesAtom(ks, i, k) /\ DerivesFactor(ks, k + 1, j)

\* Term -> Factor Factor_tail, Factor_tail -> or Factor Factor_tail | empty
DerivesTerm(ks, i, j) ==
    \/ DerivesFactor(ks, i, j)
    \/ \E k \in (i + 1)..(j - 2) :
          ks[k] = "or" /\ DerivesFactor(ks, i, k) /\ DerivesTerm(ks, k + 1, j)

\* Expr -> Term Term_tail, Term_tail -> xor Term Term_tail | empty
DerivesExpr(ks, i, j) ==
    \/ DerivesTerm(ks, i, j)
    \/ \E k \in (i + 1)..(j - 2) :
          ks[k] = "xor" /\ DerivesTerm(ks, i, k) /\ DerivesExpr(ks, k + 1, j)

\* Stmt -> id equals Expr | print Expr
DerivesStmt(ks, i, j) ==
    \/ j >= i + 3 /\ ks[i] = "ID" /\ ks[i + 1] = "=" /\ DerivesExpr(ks, i + 2, j)
    \/ j >= i + 2 /\ ks[i] = "print" /\ DerivesExpr(ks, i + 1, j)

\* Stmt_list -> Stmt Stmt_list | empty
DerivesStmtList(ks, i, j) ==
    \/ i = j
    \/ \E k \in (i + 1)..j : DerivesStmt(ks, i, k) /\ DerivesStmtList(ks, k, j)

(* C9.  The recogniser of src/parser.py accepts a token sequence exactly   *)
(* when the grammar of its docstring derives it from Stmt_list; a          *)
(* statement with xor between terms is accepted.                           *)
C9_AcceptsGrammar ==
    (Halted /\ \A i \in 1..Len(InputWords) : IsToken(InputWords[i]))
    => (status = "ok"
        <=> DerivesStmtList(Kinds(InputWords), 1, Len(InputWords) + 1))

=============================================================================
